---- MODULE Spec2Model ----
(***************************************************************************)
(* Model of src/lambda_function.py: a LINE webhook handler that detects a  *)
(* translation marker in a text message, asks a Bedrock model for the      *)
(* translation and replies with it.                                        *)
(*                                                                         *)
(* Strings are sequences of symbols.  The characters the marker logic      *)
(* looks at ("#", "e", "E", "2", "j", "J", " ") are single symbols; any    *)
(* other run of characters ("hi", "Bob", a literal of the reply template)  *)
(* is one opaque non-blank symbol.                                         *)
(***************************************************************************)
EXTENDS Integers, Sequences, FiniteSets, TLC

\* ---------------------------------------------------------------- bounds
MaxPieces == 2        \* a message text is built from at most this many chunks
MaxEvents == 2        \* events in one webhook body
MaxInvocations == 2   \* invocations served by one warm process

\* ---------------------------------------------------------------- values
None == <<"<None>">>                 \* Python's None (no string equals it)
NoEvent == [kind |-> "none", text |-> <<>>, reply_token |-> 0]

EnvNames == {"LINE_CHANNEL_ACCESS_TOKEN", "LINE_CHANNEL_SECRET",
             "BEDROCK_REGION", "BEDROCK_MODEL_ID"}

E2J == <<"#", "e", "2", "j">>
J2E == <<"#", "j", "2", "e">>

Chunks == { <<"#", "e", "2", "j">>, <<"#", "E", "2", "J">>, <<"#", "E", "2", "j">>,
            <<"#", "j", "2", "e">>, <<"#", "J", "2", "E">>, <<" ">>, <<" ", "hi">> }

RECURSIVE TextsOf(_)
TextsOf(n) == IF n = 0 THEN { <<>> }
              ELSE LET prev == TextsOf(n - 1)
                   IN  prev \cup { t \o c : t \in prev, c \in Chunks }

\* a text message is never empty
Texts == TextsOf(MaxPieces) \ { <<>> }

DisplayNames == { <<"Bob">>, <<"Alice">> }
RawOutputs == { <<"Hello">>, <<" ", "Hello", " ">>, <<" ">> }

\* ------------------------------------------------------- string functions
Whitespace == {" "}

\* str.lower(), symbol by symbol
LowerChar(c) == IF c = "E" THEN "e" ELSE IF c = "J" THEN "j" ELSE c

Lower(s) == [i \in 1..Len(s) |-> LowerChar(s[i])]

\* "m in s"
Contains(s, m) ==
    \E i \in 1..Len(s) : i + Len(m) - 1 <= Len(s) /\ SubSeq(s, i, i + Len(m) - 1) = m

RECURSIVE LStrip(_)
LStrip(s) == IF s # <<>> /\ Head(s) \in Whitespace THEN LStrip(Tail(s)) ELSE s

RECURSIVE RStrip(_)
RStrip(s) == IF s # <<>> /\ s[Len(s)] \in Whitespace
             THEN RStrip(SubSeq(s, 1, Len(s) - 1)) ELSE s

\* str.strip()
Strip(s) == RStrip(LStrip(s))

\* str.replace(old, ""): one left-to-right pass over non-overlapping matches
RECURSIVE Remove(_, _)
Remove(s, old) ==
    IF Len(s) < Len(old) THEN s
    ELSE IF SubSeq(s, 1, Len(old)) = old
         THEN Remove(SubSeq(s, Len(old) + 1, Len(s)), old)
         ELSE <<Head(s)>> \o Remove(Tail(s), old)

Upper(s) == [i \in 1..Len(s) |->
               IF s[i] = "e" THEN "E" ELSE IF s[i] = "j" THEN "J" ELSE s[i]]

\* message_text.replace("#e2j", "").replace("#E2J", "").strip()
StripMarker(message_text, marker) ==
    Strip(Remove(Remove(message_text, marker), Upper(marker)))

\* the trigger check of process_message_event: which marker is selected
FirstMarkerJ2E(message_text) ==
    IF Contains(Lower(message_text), J2E) THEN J2E
    ELSE IF Contains(Lower(message_text), E2J) THEN E2J
    ELSE None

SelectedMarker(message_text) ==
    IF Contains(Lower(message_text), E2J) THEN E2J
    ELSE IF Contains(Lower(message_text), J2E) THEN J2E
    ELSE None

SourceLang(marker) == IF marker = E2J THEN "en" ELSE "ja"
TargetLang(marker) == IF marker = E2J THEN "ja" ELSE "en"

\* str(x) inside an f-string
Str(x) == IF x = None THEN <<"None">> ELSE x

\* the f-string of line 114
ComposeReplySwapped(name, src, tgt, translated) ==
    <<"Message from @">> \o Str(name) \o <<": (", tgt, " -> ", src, "):",
      "\n--------------------\n">> \o Str(translated)

ComposeReply(name, src, tgt, translated) ==
    <<"Message from @">> \o Str(name) \o <<": (", src, " -> ", tgt, "):",
      "\n--------------------\n">> \o Str(translated)

GenericError == <<"An error occurred while processing your message.">>

\* ------------------------------------------------------------------ state
VARIABLES
    env,
                   \* which environment variables are set (lines 16-19)
    imported,
                   \* the module body ran to completion (line 26 did not raise)
    handlers,
                   \* handler._handlers["MessageEvent_TextMessage"]
    invocation,
                   \* number of lambda_handler calls started in this process
    pc,
                   \* position of the current invocation
    signature_ok,
                   \* the x-line-signature of the request matches its body
    nEvents,
                   \* number of events in the request body
    idx,
                   \* events of the body handle() has finished with
    ev,
                   \* the event being (or last) dispatched
    pending,
                   \* callbacks still to run for ev
    user_display_name,
    text_to_translate,
    marker,
                   \* the marker the trigger check selected for ev
    translated_text,
    reply_text,
    calls,
                   \* collaborator calls made for ev
    handle_called,
                   \* the current invocation has called handler.handle
    status,
                   \* statusCode of the response, 0 while there is none
    raised,
                   \* an exception left lambda_handler
    translation_failed \* translate_text returned None in this invocation

request == <<signature_ok, nEvents>>
locals  == <<user_display_name, text_to_translate, marker, translated_text, reply_text>>
vars == <<env, imported, handlers, invocation, pc, signature_ok, nEvents, idx, ev,
          pending, user_display_name, text_to_translate, marker, translated_text,
          reply_text, calls, handle_called, status, raised, translation_failed>>

line_bot_api == IF env["LINE_CHANNEL_ACCESS_TOKEN"] THEN "LineBotApi" ELSE "None"
handler      == IF env["LINE_CHANNEL_SECRET"] THEN "WebhookHandler" ELSE "None"

AllSet == [k \in EnvNames |-> TRUE]

Init ==
    /\ env = AllSet \/ env \in [EnvNames -> BOOLEAN] \ {AllSet}
    \* boto3.client(..., region_name=None) uses the ambient region when there
    \* is one and raises NoRegionError otherwise
    /\ imported \in (IF env["BEDROCK_REGION"] THEN {TRUE} ELSE BOOLEAN)
    /\ handlers = <<>>
    /\ invocation = 0
    /\ pc = "idle"
    /\ signature_ok = TRUE
    /\ nEvents = 0
    /\ idx = 0
    /\ ev = NoEvent
    /\ pending = <<>>
    /\ user_display_name = None
    /\ text_to_translate = None
    /\ marker = None
    /\ translated_text = None
    /\ reply_text = None
    /\ calls = <<>>
    /\ handle_called = FALSE
    /\ status = 0
    /\ raised = FALSE
    /\ translation_failed = FALSE

ResetLocals ==
    /\ user_display_name' = None
    /\ text_to_translate' = None
    /\ marker' = None
    /\ translated_text' = None
    /\ reply_text' = None

\* --------------------------------------------------------- lambda_handler
CanInvoke == imported /\ pc \in {"idle", "done"} /\ invocation < MaxInvocations

NewInvocation ==
    /\ invocation' = invocation + 1
    /\ idx' = 0
    /\ ev' = NoEvent
    /\ pending' = <<>>
    /\ ResetLocals
    /\ calls' = <<>>
    /\ handle_called' = FALSE
    /\ raised' = FALSE
    /\ translation_failed' = FALSE

\* lines 127-131
ConfigError(sig, n) ==
    /\ CanInvoke
    /\ line_bot_api = "None" \/ handler = "None"
    /\ NewInvocation
    /\ signature_ok' = sig
    /\ nEvents' = n
    /\ status' = 500
    /\ pc' = "done"
    /\ UNCHANGED <<env, imported, handlers>>

\* handler.add stores the function under the key of (MessageEvent, TextMessage)
RegisterCallbackAppend(registered, func) == Append(registered, func)

RegisterCallback(registered, func) == <<func>>

\* lines 133-154
EnterHandler(sig, n) ==
    /\ CanInvoke
    /\ ~(line_bot_api = "None" \/ handler = "None")
    /\ NewInvocation
    /\ signature_ok' = sig
    /\ nEvents' = n
    /\ handlers' = RegisterCallback(handlers, invocation + 1)
    /\ status' = 200
    /\ pc' = "handle"
    /\ UNCHANGED <<env, imported>>

\* lines 154-167: the response after handler.handle(body, signature)
ResponseStatusAlwaysOK(outcome) == 200

ResponseStatus(outcome) == IF outcome = "InvalidSignatureError" THEN 502 ELSE 200

\* handler.handle validates the signature before it looks at any event
HandleInvalidSignature ==
    /\ pc = "handle"
    /\ ~signature_ok
    /\ handle_called' = TRUE
    /\ status' = ResponseStatus("InvalidSignatureError")
    /\ pc' = "done"
    /\ UNCHANGED <<env, imported, handlers, invocation, request, idx, ev, pending,
                   locals, calls, raised, translation_failed>>

HandleParse ==
    /\ pc = "handle"
    /\ signature_ok
    /\ handle_called' = TRUE
    /\ pc' = "dispatch"
    /\ UNCHANGED <<env, imported, handlers, invocation, request, idx, ev, pending,
                   locals, calls, status, raised, translation_failed>>

\* handle(): an event that is a text message goes to the registered callback
DispatchText(text) ==
    /\ pc = "dispatch"
    /\ idx < nEvents
    /\ handlers # <<>>
    /\ ev' = [kind |-> "text", text |-> text, reply_token |-> idx + 1]
    /\ pending' = handlers
    /\ calls' = <<>>
    /\ ResetLocals
    /\ pc' = "callback"
    /\ UNCHANGED <<env, imported, handlers, invocation, request, idx, handle_called, status,
                   raised, translation_failed>>

\* handle(): no callback is registered for any other kind of message
SkipEvent ==
    /\ pc = "dispatch"
    /\ idx < nEvents
    /\ ev' = [kind |-> "other", text |-> <<>>, reply_token |-> idx + 1]
    /\ pending' = <<>>
    /\ calls' = <<>>
    /\ ResetLocals
    /\ idx' = idx + 1
    /\ UNCHANGED <<env, imported, handlers, invocation, pc, request, handle_called, status,
                   raised, translation_failed>>

\* line 167 after handle() returned normally
ReturnOK ==
    /\ pc = "dispatch"
    /\ idx = nEvents
    /\ status' = ResponseStatus("returned")
    /\ pc' = "done"
    /\ UNCHANGED <<env, imported, handlers, invocation, request, idx, ev, pending,
                   locals, calls, handle_called, raised, translation_failed>>

\* the callback at Head(pending) returned: next callback, or next event
CallbackReturns ==
    /\ pending' = Tail(pending)
    /\ IF Tail(pending) = <<>>
       THEN idx' = idx + 1 /\ pc' = "dispatch"
       ELSE idx' = idx /\ pc' = "callback"

\* ------------------------------------- handle_message / process_message_event
Call(op, cb, token, text, src, tgt) ==
    [op |-> op, cb |-> cb, reply_token |-> token, text |-> text,
     source_lang |-> src, target_lang |-> tgt]

\* lines 80-82 raise: the except clause of line 118 produces the reply text
GetProfileRaises ==
    /\ pc = "callback"
    /\ calls' = Append(calls, Call("get_profile", Head(pending), 0, <<>>, "", ""))
    /\ reply_text' = GenericError
    /\ pc' = "reply"
    /\ UNCHANGED <<handle_called, env, imported, handlers, invocation, request, idx, ev,
                   pending,
                   user_display_name, text_to_translate, marker, translated_text,
                   status, raised, translation_failed>>

\* lines 80-104 and 116: profile lookup, trigger check, stripping
GetProfile(name) ==
    /\ pc = "callback"
    /\ calls' = Append(calls, Call("get_profile", Head(pending), 0, <<>>, "", ""))
    /\ user_display_name' = name
    /\ LET message_text == Strip(ev.text)
           m == SelectedMarker(message_text)
           t == IF m = None THEN None ELSE StripMarker(message_text, m)
       IN  /\ marker' = m
           /\ text_to_translate' = t
           /\ IF m # None /\ t # <<>>
              THEN /\ pc' = "translate"
                   /\ UNCHANGED <<pending, idx>>
              ELSE CallbackReturns          \* return None: nothing to send
    /\ UNCHANGED <<handle_called, env, imported, handlers, invocation, request, ev,
                   translated_text,
                   reply_text, status, raised, translation_failed>>

\* lines 39-63 and 114: translate_text, then the reply text
Translate(outcome, raw) ==
    /\ pc = "translate"
    /\ outcome \in (IF env["BEDROCK_MODEL_ID"] THEN {"ok", "raises", "malformed"}
                                              ELSE {"raises"})
    /\ calls' = Append(calls, Call("invoke_model", Head(pending), 0, text_to_translate,
                                    SourceLang(marker), TargetLang(marker)))
    /\ LET result == IF outcome = "ok" THEN Strip(raw) ELSE None
       IN  /\ translated_text' = result
           /\ translation_failed' = (translation_failed \/ result = None)
           /\ reply_text' = ComposeReply(user_display_name, SourceLang(marker),
                                         TargetLang(marker), result)
    /\ pc' = "reply"
    /\ UNCHANGED <<handle_called, env, imported, handlers, invocation, request, idx, ev,
                   pending,
                   user_display_name, text_to_translate, marker, status, raised>>

\* lines 144-148: reply_message returns
ReplyMessage ==
    /\ pc = "reply"
    /\ calls' = Append(calls, Call("reply_message", Head(pending), ev.reply_token,
                                    reply_text, "", ""))
    /\ CallbackReturns
    /\ UNCHANGED <<handle_called, env, imported, handlers, invocation, request, ev,
                   locals, status,
                   raised, translation_failed>>

\* lines 144-148: reply_message raises; nothing between it and the caller of
\* lambda_handler catches the exception
ReplyMessageRaises ==
    /\ pc = "reply"
    /\ calls' = Append(calls, Call("reply_message", Head(pending), ev.reply_token,
                                    reply_text, "", ""))
    /\ raised' = TRUE
    /\ status' = 0
    /\ pc' = "done"
    /\ UNCHANGED <<handle_called, env, imported, handlers, invocation, request, idx, ev,
                   pending,
                   locals, translation_failed>>

Next ==
    \/ \E sig \in BOOLEAN, n \in 0..MaxEvents : ConfigError(sig, n)
    \/ \E sig \in BOOLEAN, n \in 0..MaxEvents : EnterHandler(sig, n)
    \/ HandleInvalidSignature
    \/ HandleParse
    \/ \E text \in Texts : DispatchText(text)
    \/ SkipEvent
    \/ ReturnOK
    \/ GetProfileRaises
    \/ \E name \in DisplayNames : GetProfile(name)
    \/ \E outcome \in {"ok", "raises", "malformed"}, raw \in RawOutputs :
          Translate(outcome, raw)
    \/ ReplyMessage
    \/ ReplyMessageRaises

Spec == Init /\ [][Next]_vars

\* ------------------------------------------------------------ properties
Configured == line_bot_api # "None" /\ handler # "None"

CallsOf(op) == SelectSeq(calls, LAMBDA c : c.op = op)

\* every callback dispatched for ev has returned, or an exception ended it
EventFinished == ev.kind = "text" /\ pc \in {"dispatch", "done"}

HasMarker(text, m) == Contains(Lower(text), m)

\* the text with every occurrence of the marker, in any letter case, removed
RECURSIVE RemoveAnyCase(_, _)
RemoveAnyCase(s, m) ==
    IF Len(s) < Len(m) THEN s
    ELSE IF Lower(SubSeq(s, 1, Len(m))) = m
         THEN RemoveAnyCase(SubSeq(s, Len(m) + 1, Len(s)), m)
         ELSE <<Head(s)>> \o RemoveAnyCase(Tail(s), m)

\* C1: no exception raised while handling a message event leaves
\* lambda_handler, and every event of the body is processed before it returns
C1_ErrorsIsolated ==
    /\ ~raised
    /\ (pc = "done" /\ Configured /\ signature_ok) => (status = 200 /\ idx = nEvents)

\* C2: when any of the four configuration values is absent, the invocation
\* makes no collaborator call and returns statusCode 500
C2_MissingConfigShortCircuits ==
    (invocation > 0 /\ \E k \in EnvNames : ~env[k]) =>
        /\ handle_called = FALSE
        /\ pc = "done" => status = 500

\* C3: a rejected signature gives statusCode 502 and no message processing
\* (no dispatch, no profile lookup, no translation, no reply), and 502 is
\* returned in no other case
C3_InvalidSignature502 ==
    /\ (pc = "done" /\ Configured /\ ~signature_ok) => status = 502
    /\ (invocation > 0 /\ ~signature_ok) =>
           /\ ev = NoEvent /\ calls = <<>>
           /\ pc \notin {"dispatch", "callback", "translate", "reply"}
    /\ status = 502 => (pc = "done" /\ Configured /\ ~signature_ok)

C3_Witness == pc = "done" /\ status = 502 /\ nEvents > 0 /\ handle_called

\* C4: for a text message containing neither marker in any letter case the
\* translation client is never invoked and no reply is sent, whatever the
\* profile lookup did
C4_NoTriggerNoAction ==
    (ev.kind = "text" /\ ~HasMarker(ev.text, E2J) /\ ~HasMarker(ev.text, J2E)) =>
        (CallsOf("invoke_model") = <<>> /\ CallsOf("reply_message") = <<>>)

\* C5: the text handed to the translation client is the message text with
\* every case variant of the selected marker removed, then trimmed, and it
\* never contains that marker in any letter case
C5_AllCaseVariantsStripped ==
    \A i \in 1..Len(calls) :
        calls[i].op = "invoke_model" =>
            /\ calls[i].text = Strip(RemoveAnyCase(Strip(ev.text), marker))
            /\ ~HasMarker(calls[i].text, marker)

\* C6: after a translation failure no exception leaves lambda_handler, the
\* reply is the success template with the placeholder and not the generic
\* error, it is sent, and lambda_handler returns statusCode 200
C6_TranslationFailureContained ==
    /\ translation_failed => ~raised
    /\ (translation_failed /\ pc = "done") => status = 200
    /\ (ev.kind = "text" /\ marker # None /\ translated_text = None /\ reply_text # None) =>
           reply_text = <<"Message from @">> \o user_display_name
                          \o <<": (", SourceLang(marker), " -> ", TargetLang(marker), "):",
                               "\n--------------------\n", "None">>
    /\ (EventFinished /\ marker # None /\ text_to_translate # <<>>
           /\ translated_text = None) => Len(CallsOf("reply_message")) = 1

\* C7: when nothing is left of the text once the marker is stripped and the
\* rest trimmed, the translation client is not invoked and no reply is sent
C7_EmptyRemainderNoOp ==
    (ev.kind = "text" /\ marker # None
       /\ Strip(RemoveAnyCase(Strip(ev.text), marker)) = <<>>) =>
        (CallsOf("invoke_model") = <<>> /\ CallsOf("reply_message") = <<>>)

\* C8: whenever the translation client is invoked the pair is (en, ja)
\* exactly when the text contains #e2j in some letter case, also next to
\* #j2e, and (ja, en) otherwise; source and target never coincide
C8_LanguagePair ==
    \A i \in 1..Len(calls) :
        calls[i].op = "invoke_model" =>
            /\ <<calls[i].source_lang, calls[i].target_lang>> =
                   (IF HasMarker(ev.text, E2J) THEN <<"en", "ja">> ELSE <<"ja", "en">>)
            /\ calls[i].source_lang # calls[i].target_lang

C8_Witness ==
    /\ HasMarker(ev.text, E2J) /\ HasMarker(ev.text, J2E)
    /\ \E i \in 1..Len(calls) : calls[i].op = "invoke_model" /\ calls[i].source_lang = "en"

\* C9: an event with a trigger, a non-empty remainder, display name N and
\* translation result R gets exactly one reply, on its own reply token, with
\* the text "Message from @N: (src -> tgt):\n--------------------\nR", R being
\* the answer to the one model call made for the stripped remainder
C9_ReplyText ==
    /\ Len(CallsOf("reply_message")) <= 1
    /\ (EventFinished /\ translated_text # None) =>
          LET replies == CallsOf("reply_message")
              asked   == CallsOf("invoke_model")
              pair    == IF HasMarker(ev.text, E2J) THEN <<"en", "ja">> ELSE <<"ja", "en">>
          IN  /\ Len(replies) = 1
              /\ replies[1].reply_token = ev.reply_token
              /\ replies[1].text =
                     <<"Message from @">> \o user_display_name
                         \o <<": (", pair[1], " -> ", pair[2], "):",
                              "\n--------------------\n">> \o translated_text
              /\ Len(asked) = 1
              /\ asked[1].text = text_to_translate
              /\ asked[1].text # <<>>
              /\ asked[1].target_lang = pair[2]

C9_Witness ==
    /\ EventFinished
    /\ ev.text = <<"#", "j", "2", "e", " ", "hi">>
    /\ CallsOf("invoke_model") # <<>>
    /\ CallsOf("invoke_model")[1].text = <<"hi">>
    /\ CallsOf("reply_message") # <<>>
    /\ CallsOf("reply_message")[1].text =
           <<"Message from @", "Bob", ": (", "ja", " -> ", "en", "):",
             "\n--------------------\n", "Hello">>

\* C10: however many invocations came before, an event is dispatched to one
\* callback only, the one the current invocation registered: at most one
\* profile lookup, one model call and one reply per event
C10_SingleCallback ==
    /\ Len(pending) <= 1
    /\ \A i \in 1..Len(calls) : calls[i].cb = invocation
    /\ \A op \in {"get_profile", "invoke_model", "reply_message"} : Len(CallsOf(op)) <= 1

C10_Witness ==
    /\ invocation >= 2
    /\ EventFinished
    /\ Len(CallsOf("get_profile")) = 1
    /\ Len(CallsOf("invoke_model")) = 1
    /\ Len(CallsOf("reply_message")) = 1

====
